---- MODULE Spec2Model ----
(***************************************************************************)
(* merethread: the lifecycle of one managed thread (Thread and its         *)
(* DaemonThread / TaskThread subclasses), its run wrapper, its stop        *)
(* protocol and its result handle, with the controllers that call          *)
(* stop()/cancel() on it from other threads.                               *)
(***************************************************************************)
EXTENDS Integers, Sequences, FiniteSets, TLC

\* ---------------------------------------------------------------- bounds
MaxTime == 2   \* the clock runs 0..MaxTime

\* ------------------------------------------------------------- constants
None == "None"
SAMPLE_RESULT == "v42"
SAMPLE_EXCEPTION == "RuntimeError"
CancelledError == "CancelledError"
TimeoutError == "TimeoutError"

Kinds == {"Thread", "Daemon", "DaemonCustom", "Task", "LimitedTime", "Timeout", "Function"}
Callers == {"c1", "c2"}
ReasonArgs == {None, "r1"}
Values == {None, SAMPLE_RESULT}

IsTaskKind(k) == k \in {"Task", "LimitedTime", "Timeout", "Function", "ValueExpiry"}
IsExpiringKind(k) == k \in {"LimitedTime", "Timeout", "ValueExpiry"}
IsDaemonKind(k) == k \in {"Daemon", "DaemonCustom", "EventLoop"}

\* the forms of the raw expiry input of an expiring task, and the (single)
\* raw value of a unit that is no expiring task
NoExpiryRaw == <<"none", 0>>
ExpiryRaws == {<<"datetime", t>> : t \in 0..MaxTime}
                \cup {<<"timedelta", d>> : d \in {-1, 1}}
                \cup {<<"seconds", d>> : d \in {0, 1}}

\* future states of concurrent.futures.Future, as ThreadFuture inherits them
PENDING == "PENDING"
RUNNING == "RUNNING"
FINISHED == "FINISHED"
CANCELLED == "CANCELLED"
Unset == "Unset"

VARIABLES
    kind,               \* the concrete class of the unit
    pc,                 \* position of the unit in start()/run()
    stopping_event,     \* self._stopping_event.is_set()
    stop_reason,        \* self._stop_reason
    result,             \* run(): local result
    exception,          \* run(): local exception
    signal,             \* the _ThreadStop in flight: None, "stop" or "expired"
    thr_result,         \* self.__result
    thr_exception,      \* self.__exception
    future,             \* self.__future: [state, result, exception]
    CB,                 \* what the done-callback recorded: [result, exception]
    hooks,              \* the hooks invoked so far, in order
    now,                \* the clock
    expiry_raw,         \* self._expiry_raw
    expiry,             \* self._expiry: <<>> (None) or <<t>>
    expired,            \* self._expired
    sleep,              \* the _sleep in progress: [wake, clamp]
    is_premature_exit,  \* self._is_premature_exit
    call,               \* per caller: the stop()/cancel() call in progress
    fn_calls,           \* the arguments the registered callback / errback got
    event,              \* EventLoopThread._main_iteration: local event
    obs,                \* a controller's query call and what it returned
    ctx,                \* a ThreadLifeCycleContext and the threads it manages
    hist                \* history: what has happened so far (not program state)

vars == <<kind, pc, stopping_event, stop_reason, result, exception, signal,
          thr_result, thr_exception, future, CB, hooks, now, expiry_raw,
          expiry, expired, sleep, is_premature_exit, call, fn_calls, event,
          obs, ctx, hist>>

unitVars == <<result, exception, signal, thr_result, thr_exception, future, CB,
              fn_calls, hooks, expiry, expired, sleep, is_premature_exit>>

\* ---------------------------------------------------------------- queries
is_started == pc # "new"

is_alive == pc \notin {"new", "done"}

is_stopping == stopping_event /\ is_alive

is_stopped == is_started /\ ~is_alive

\* mutant: is_aborted does not ask whether the thread is alive
is_aborted_early == thr_exception # None

is_aborted == thr_exception # None /\ ~is_alive

is_cancelled == is_stopped /\ stopping_event

\* mutant: status() does not look at the event before the unit is started
ThreadStatus_unstarted ==
    IF ~is_started
        THEN "not_started"
    ELSE IF is_alive
        THEN (IF stopping_event THEN "stopping" ELSE "running")
    ELSE IF is_aborted
        THEN "aborted"
    ELSE "stopped"

ThreadStatus ==
    IF ~is_started
        THEN (IF stopping_event THEN "stopped_before_starting" ELSE "not_started")
    ELSE IF is_alive
        THEN (IF stopping_event THEN "stopping" ELSE "running")
    ELSE IF is_aborted
        THEN "aborted"
    ELSE "stopped"

status ==
    IF IsTaskKind(kind) /\ is_cancelled THEN "cancelled" ELSE ThreadStatus

future_running == future.state = RUNNING

future_done == future.state \in {CANCELLED, FINISHED}

future_cancelled == future.state = CANCELLED

\* ------------------------------------------------------------------- Init
NoSleep == [timeout |-> <<>>, wake |-> <<>>, clamp |-> FALSE]
IdleObs == [op |-> "none", pc |-> "idle", arg |-> None, out |-> None]
NoCtx == [pc |-> "none"]
IdleCall == [pc |-> "idle", reason |-> None, late |-> FALSE, direct |-> FALSE]

NoEvent == [cur |-> None, calls |-> {}]

\* the state after construction of a unit of one of the kinds
InitOf(kinds) ==
    /\ kind \in kinds
    /\ pc = "new"
    /\ stopping_event = FALSE
    /\ stop_reason = None
    /\ result = None
    /\ exception = None
    /\ signal = None
    /\ thr_result = None
    /\ thr_exception = None
    /\ future = [state |-> PENDING, result |-> None, exception |-> None]
    /\ CB = [result |-> Unset, exception |-> Unset]
    /\ hooks = <<>>
    /\ now = 0
    /\ expiry_raw \in (IF IsExpiringKind(kind) THEN ExpiryRaws ELSE {NoExpiryRaw})
    /\ expiry = <<>>
    /\ expired = FALSE
    /\ sleep = NoSleep
    /\ is_premature_exit = FALSE
    /\ call = [c \in Callers |-> IdleCall]
    /\ fn_calls = [callback |-> <<>>, errback |-> <<>>, order |-> <<>>]
    /\ event = NoEvent
    /\ obs = IdleObs
    /\ hist = [first |-> Unset,           \* the reason of the first _request_stop
               returned |-> FALSE,        \* a stop()/cancel() call has returned
               usage_error |-> FALSE,     \* FunctionThread.cancel has raised
               stop_at_start |-> FALSE,   \* the event was set when start() was called
               call_at_start |-> FALSE,   \* a stop()/cancel() call was in progress then
               stop_at_check |-> FALSE,   \* the event was set at the pre-start check
               set_alive |-> FALSE,       \* the event was set while the unit was alive
               results |-> 0,             \* assignments of self.__result in run()
               errors |-> 0,              \* assignments of self.__exception in run()
               resolved |-> 0,            \* times run() has set the future
               plain_stop |-> FALSE,      \* _on_thread_stop got a plain _ThreadStop
               on_error |-> FALSE,        \* _on_error was handed an iteration's error
               late_start |-> FALSE,      \* the deadline _on_enter resolved had passed
               stop_at_exit |-> FALSE,    \* the event was set when a daemon's _on_exit ran
               clamp_stop |-> FALSE]      \* a sleep with a cut timeout woke to a stop

Init == InitOf(Kinds) /\ ctx = NoCtx

\* ------------------------------------------------------------ controllers
\* Thread._request_stop, first statement: self._stop_reason = reason
RequestStopReason(c) ==
    /\ call[c].pc = "reason"
    /\ stop_reason' = call[c].reason
    /\ call' = [call EXCEPT ![c].pc = "set"]
    /\ hist' = [hist EXCEPT !.first = IF @ = Unset THEN call[c].reason ELSE @]
    /\ UNCHANGED <<kind, pc, stopping_event, now, expiry_raw, event, obs, ctx>>
    /\ UNCHANGED unitVars

\* Thread._request_stop, second statement: self._stopping_event.set()
RequestStopSet(c) ==
    /\ call[c].pc = "set"
    /\ stopping_event' = TRUE
    /\ call' = [call EXCEPT ![c] = IdleCall]
    /\ hist' = [hist EXCEPT !.set_alive = @ \/ is_alive,
                            !.returned = TRUE]
    /\ UNCHANGED <<kind, pc, stop_reason, now, expiry_raw, event, obs, ctx>>
    /\ UNCHANGED unitVars

\* a controller thread may begin a call: callers are interchangeable, so the
\* second slot is taken only while the first is busy
CanCall(c) ==
    /\ call[c].pc = "idle"
    /\ c = "c2" => call["c1"].pc # "idle"

\* DaemonThread.stop / IdleThread.stop: straight into _request_stop
Stop(c, reason) ==
    /\ ~IsTaskKind(kind)
    /\ CanCall(c)
    /\ call' = [call EXCEPT ![c] = [pc |-> "reason", reason |-> reason,
                                    late |-> stopping_event, direct |-> FALSE]]
    /\ UNCHANGED <<kind, pc, stopping_event, stop_reason, now, expiry_raw, event, obs, ctx, hist>>
    /\ UNCHANGED unitVars

\* the reason TaskThread.cancel hands to _request_stop
CancelReason(reason) == IF reason = None THEN "cancelled" ELSE reason

\* TaskThread.cancel: the guard, then the call of _request_stop
CancelGuard(c, reason) ==
    IF is_stopped \/ stopping_event
        THEN /\ call' = [call EXCEPT ![c] = IdleCall]
             /\ hist' = [hist EXCEPT !.returned = TRUE]
        ELSE /\ call' = [call EXCEPT ![c] = [pc |-> "reason", reason |-> CancelReason(reason),
                                         late |-> FALSE, direct |-> FALSE]]
             /\ hist' = hist

\* TaskThread.cancel on a plain or expiring task
Cancel(c, reason) ==
    /\ IsTaskKind(kind) /\ kind # "Function"
    /\ CanCall(c)
    /\ CancelGuard(c, reason)
    /\ UNCHANGED <<kind, pc, stopping_event, stop_reason, now, expiry_raw, event, obs, ctx>>
    /\ UNCHANGED unitVars

\* mutant: FunctionThread does not override cancel
FunctionCancel_inherited(c, reason) ==
    /\ kind = "Function"
    /\ CanCall(c)
    /\ CancelGuard(c, reason)
    /\ UNCHANGED <<kind, pc, stopping_event, stop_reason, now, expiry_raw, event, obs, ctx>>
    /\ UNCHANGED unitVars

\* FunctionThread.cancel: a usage error while the unit is alive, else on to
\* TaskThread.cancel
FunctionCancel(c, reason) ==
    /\ kind = "Function"
    /\ CanCall(c)
    /\ IF is_alive
          THEN /\ call' = call
               /\ hist' = [hist EXCEPT !.usage_error = TRUE]
          ELSE /\ call' = [call EXCEPT ![c] = [pc |-> "guard", reason |-> reason,
                                              late |-> FALSE, direct |-> FALSE]]
               /\ hist' = hist
    /\ UNCHANGED <<kind, pc, stopping_event, stop_reason, now, expiry_raw, event, obs, ctx>>
    /\ UNCHANGED unitVars

\* FunctionThread.cancel, the super().cancel() it ends with
FunctionCancelSuper(c) ==
    /\ call[c].pc = "guard"
    /\ CancelGuard(c, call[c].reason)
    /\ UNCHANGED <<kind, pc, stopping_event, stop_reason, now, expiry_raw, event, obs, ctx>>
    /\ UNCHANGED unitVars

\* Thread._request_stop called on a task directly rather than through cancel();
\* the controllers modelled do so only with a plain or function task that has
\* terminated
RequestStopDirect(c, reason) ==
    /\ IsTaskKind(kind) /\ ~IsExpiringKind(kind)
    /\ is_stopped
    /\ CanCall(c)
    /\ call' = [call EXCEPT ![c] = [pc |-> "reason", reason |-> reason,
                                    late |-> stopping_event, direct |-> TRUE]]
    /\ UNCHANGED <<kind, pc, stopping_event, stop_reason, now, expiry_raw, event, obs, ctx, hist>>
    /\ UNCHANGED unitVars

\* the clock self._now() reads; only expiring tasks read it
Tick ==
    /\ IsExpiringKind(kind)
    /\ now < MaxTime
    /\ now' = now + 1
    /\ UNCHANGED <<kind, pc, stopping_event, stop_reason, expiry_raw, event, obs, ctx, call, hist>>
    /\ UNCHANGED unitVars

\* ---------------------------------------------------------- result handle
\* Future.set_running_or_notify_cancel, as run() calls it
set_running_or_notify_cancel(f) ==
    IF f.state = PENDING THEN [f EXCEPT !.state = RUNNING] ELSE f

\* mutant: set_result marks the future finished and drops the value
set_result_dropped(f, r) == [state |-> FINISHED, result |-> None, exception |-> None]

\* Future.set_result
set_result(f, r) == [state |-> FINISHED, result |-> r, exception |-> None]

\* mutant: set_exception stores the error as the future's result
set_exception_as_result(f, e) == [state |-> FINISHED, result |-> e, exception |-> None]

\* Future.set_exception
set_exception(f, e) == [state |-> FINISHED, result |-> None, exception |-> e]

\* fut.get_result(), as add_callback's cb and add_errback's eb call it:
\* concurrent.futures.Future has result() and no get_result, so the attribute
\* lookup raises AttributeError
get_result(f) == [raised |-> "AttributeError", value |-> None]

\* add_callback's cb(fut): the arguments fn is called with (after the thread),
\* none if fn is not called
add_callback_cb(f) == IF get_result(f).raised # None THEN <<>> ELSE <<get_result(f).value>>

\* add_errback's eb(fut): the arguments fn is called with (after the thread)
add_errback_eb(f) == IF get_result(f).raised # None THEN <<get_result(f).raised>> ELSE <<>>

\* the done-callbacks in the order of their registration, before start():
\* the one create_thread adds, then add_callback's cb and add_errback's eb
DoneCallbackList == <<"_callback", "cb", "eb">>

\* mutant: resolving the future invokes no callback
DoneCallbacks_none(calls, f) == calls

\* the future runs its done-callbacks, in the order of the list, inside
\* set_result / set_exception
DoneCallbacks(calls, f) ==
    [callback |-> calls.callback \o add_callback_cb(f),
     errback |-> calls.errback \o add_errback_eb(f),
     order |-> calls.order \o DoneCallbackList]

\* the done-callback registered when the unit is created: it records
\* fut.result(timeout=0), or the error that raises
Callback(cb, f) ==
    IF f.exception # None
        THEN [cb EXCEPT !.exception = f.exception]
        ELSE [cb EXCEPT !.result = f.result]

\* ------------------------------------------------------------ run wrapper
Unit(from, to) ==
    /\ pc = from
    /\ pc' = to
    /\ UNCHANGED <<kind, stopping_event, now, expiry_raw, event, obs, ctx, call>>

\* start(): the native thread is spawned and marked started
Start ==
    /\ Unit("new", "boot")
    /\ hist' = [hist EXCEPT !.stop_at_start = stopping_event,
                            !.call_at_start = \E c \in Callers : call[c].pc # "idle"]
    /\ UNCHANGED <<stop_reason>>
    /\ UNCHANGED unitVars

\* mutant: run() does not mark the future running
RunBegin_unmarked ==
    /\ Unit("boot", "check")
    /\ result' = None
    /\ exception' = None
    /\ UNCHANGED <<stop_reason, signal, thr_result, thr_exception, future, CB, fn_calls, hooks,
                   expiry, expired, sleep, is_premature_exit, hist>>

\* run(): entering the contexts, result = exception = None, and
\* self.future.set_running_or_notify_cancel()
RunBegin ==
    /\ Unit("boot", "check")
    /\ result' = None
    /\ exception' = None
    /\ future' = set_running_or_notify_cancel(future)
    /\ UNCHANGED <<stop_reason, signal, thr_result, thr_exception, CB, fn_calls, hooks,
                   expiry, expired, sleep, is_premature_exit, hist>>

\* mutant: run() has no pre-start check
RunPreStartCheck_skipped ==
    /\ pc = "check"
    /\ pc' = "enter"
    /\ hist' = [hist EXCEPT !.stop_at_check = stopping_event]
    /\ UNCHANGED <<kind, stopping_event, stop_reason, now, expiry_raw, event, obs, ctx, call>>
    /\ UNCHANGED unitVars

\* run(): the pre-start check `if not self._stopping_event.is_set()`
RunPreStartCheck ==
    /\ pc = "check"
    /\ pc' = IF ~stopping_event THEN "enter" ELSE "bss"
    /\ hist' = [hist EXCEPT !.stop_at_check = stopping_event]
    /\ UNCHANGED <<kind, stopping_event, stop_reason, now, expiry_raw, event, obs, ctx, call>>
    /\ UNCHANGED unitVars

\* mutant: the expiry is the one computed when the task was constructed (the
\* clock starts at 0)
calc_expiry_at_construction(raw, t) == IF raw[1] = "datetime" THEN raw[2] ELSE 0 + raw[2]

\* _ExpiringTaskThread._calc_expiry
calc_expiry(raw, t) == IF raw[1] = "datetime" THEN raw[2] ELSE t + raw[2]

\* mutant: _check_expiry raises only once the deadline is strictly behind
check_expiry_strict(t, exp) == t > exp[1]

\* _ExpiringTaskThread._check_expiry: does it raise _Expired?
check_expiry(t, exp) == t >= exp[1]

\* _on_enter: Thread's logs; _ExpiringTaskThread's also resolves the expiry.
\* When it returns, run() invokes _main.
OnEnter ==
    /\ pc = "enter"
    /\ IF IsExpiringKind(kind)
          THEN /\ expiry' = <<calc_expiry(expiry_raw, now)>>
               /\ hooks' = Append(hooks, "on_enter")
               /\ pc' = "enter_check"
               /\ hist' = [hist EXCEPT !.late_start = calc_expiry(expiry_raw, now) <= now]
          ELSE /\ expiry' = expiry
               /\ hooks' = hooks \o <<"on_enter", "main">>
               /\ pc' = "main"
               /\ hist' = hist
    /\ UNCHANGED <<kind, stopping_event, stop_reason, now, expiry_raw, event, obs, ctx, call>>
    /\ UNCHANGED <<result, exception, signal, thr_result, thr_exception, future, CB, fn_calls,
                   expired, sleep, is_premature_exit>>

\* an _on_enter hook overridden by a subclass raises an ordinary error:
\* run() captures it and _main is not invoked
OnEnterRaise ==
    /\ Unit("enter", "finally")
    /\ hooks' = Append(hooks, "on_enter")
    /\ exception' = SAMPLE_EXCEPTION
    /\ UNCHANGED <<stop_reason, result, signal, thr_result, thr_exception, future, CB, fn_calls,
                   expiry, expired, sleep, is_premature_exit, hist>>

\* _ExpiringTaskThread._on_enter, its closing self._check_expiry()
OnEnterCheckExpiry ==
    /\ pc = "enter_check"
    /\ IF check_expiry(now, expiry)
          THEN /\ signal' = "expired"
               /\ hooks' = hooks
               /\ pc' = "on_stop"
          ELSE /\ signal' = signal
               /\ hooks' = Append(hooks, "main")
               /\ pc' = "main"
    /\ UNCHANGED <<kind, stopping_event, stop_reason, now, expiry_raw, event, obs, ctx, call, hist>>
    /\ UNCHANGED <<result, exception, thr_result, thr_exception, future, CB, fn_calls,
                   expiry, expired, sleep, is_premature_exit>>

\* mutant: TaskThread does not override _handle_stop_before_start
HandleStopBeforeStart_base ==
    /\ pc = "bss"
    /\ hooks' = Append(hooks, "before_start_stop")
    /\ signal' = signal
    /\ pc' = "finally"
    /\ UNCHANGED <<kind, stopping_event, stop_reason, now, expiry_raw, event, obs, ctx, call, hist>>
    /\ UNCHANGED <<result, exception, thr_result, thr_exception, future, CB, fn_calls,
                   expiry, expired, sleep, is_premature_exit>>

\* _handle_stop_before_start: Thread's logs and returns; TaskThread's raises
\* _ThreadStop
HandleStopBeforeStart ==
    /\ pc = "bss"
    /\ hooks' = Append(hooks, "before_start_stop")
    /\ IF IsTaskKind(kind)
          THEN signal' = "stop" /\ pc' = "on_stop"
          ELSE signal' = signal /\ pc' = "finally"
    /\ UNCHANGED <<kind, stopping_event, stop_reason, now, expiry_raw, event, obs, ctx, call, hist>>
    /\ UNCHANGED <<result, exception, thr_result, thr_exception, future, CB, fn_calls,
                   expiry, expired, sleep, is_premature_exit>>

\* mutant: TaskThread._on_thread_stop logs and returns, as Thread's does
on_thread_stop_swallow(k, sig) ==
    IF IsExpiringKind(k) /\ sig = "expired"
        THEN (IF k = "Timeout" THEN TimeoutError ELSE None)
    ELSE None

\* mutant: _on_expiry raises TimeoutError under either policy
on_thread_stop_timeout(k, sig) ==
    IF IsExpiringKind(k) /\ sig = "expired"
        THEN TimeoutError
    ELSE IF IsTaskKind(k) THEN CancelledError
    ELSE None

\* mutant: _on_expiry returns None under either policy
on_thread_stop_clean(k, sig) ==
    IF IsExpiringKind(k) /\ sig = "expired"
        THEN None
    ELSE IF IsTaskKind(k) THEN CancelledError
    ELSE None

\* mutant: every unit's _on_thread_stop raises CancelledError for a plain stop
on_thread_stop_raise(k, sig) ==
    IF IsExpiringKind(k) /\ sig = "expired"
        THEN (IF k = "Timeout" THEN TimeoutError ELSE None)
    ELSE CancelledError

\* what _on_thread_stop raises for the signal it is handed (None: it returns):
\* Thread's logs; TaskThread's raises CancelledError; _ExpiringTaskThread's
\* hands an _Expired to _on_expiry, which returns (limited time) or raises
\* TimeoutError (timeout)
on_thread_stop(k, sig) ==
    IF IsExpiringKind(k) /\ sig = "expired"
        THEN (IF k = "Timeout" THEN TimeoutError ELSE None)
    ELSE IF IsTaskKind(k) THEN CancelledError
    ELSE None

\* what _on_expiry returns, and _ExpiringTaskThread._on_thread_stop with it:
\* LimitedTimeTaskThread's returns None; ValueExpiry is a subclass of
\* _ExpiringTaskThread whose _on_expiry returns a value
on_expiry(k) == IF k = "ValueExpiry" THEN SAMPLE_RESULT ELSE None

\* run(): except _ThreadStop as e: self._on_thread_stop(e); the call's value
\* is not bound, run()'s local result stays as it was
OnThreadStop ==
    /\ Unit("on_stop", "finally")
    /\ hooks' = Append(hooks, "on_stop")
    /\ expired' = (expired \/ (IsExpiringKind(kind) /\ signal = "expired"))
    /\ exception' = on_thread_stop(kind, signal)
    /\ signal' = None
    /\ hist' = [hist EXCEPT !.plain_stop = @ \/ (signal = "stop")]
    /\ UNCHANGED <<stop_reason, result, thr_result, thr_exception, future, CB, fn_calls,
                   expiry, sleep, is_premature_exit>>

\* mutant: the finally clause assigns self.__result whether or not an error
\* was captured
RunFinallyCapture_both ==
    /\ Unit("finally", "resolve")
    /\ thr_result' = result
    /\ IF exception # None
          THEN /\ thr_exception' = exception
               /\ hooks' = Append(hooks, "on_abort")
               /\ hist' = [hist EXCEPT !.errors = @ + 1, !.results = @ + 1]
          ELSE /\ thr_exception' = thr_exception
               /\ hooks' = hooks
               /\ hist' = [hist EXCEPT !.results = @ + 1]
    /\ UNCHANGED <<stop_reason, result, exception, signal, future, CB, fn_calls,
                   expiry, expired, sleep, is_premature_exit>>

\* mutant: the finally clause does not call _on_abort
RunFinallyCapture_silent ==
    /\ Unit("finally", "resolve")
    /\ IF exception # None
          THEN /\ thr_exception' = exception
               /\ thr_result' = thr_result
               /\ hist' = [hist EXCEPT !.errors = @ + 1]
          ELSE /\ thr_result' = result
               /\ thr_exception' = thr_exception
               /\ hist' = [hist EXCEPT !.results = @ + 1]
    /\ UNCHANGED <<stop_reason, result, exception, signal, future, CB, fn_calls, hooks,
                   expiry, expired, sleep, is_premature_exit>>

\* run(): finally, first part: self.__exception and _on_abort, or self.__result
RunFinallyCapture ==
    /\ Unit("finally", "resolve")
    /\ IF exception # None
          THEN /\ thr_exception' = exception
               /\ thr_result' = thr_result
               /\ hooks' = Append(hooks, "on_abort")
               /\ hist' = [hist EXCEPT !.errors = @ + 1]
          ELSE /\ thr_result' = result
               /\ thr_exception' = thr_exception
               /\ hooks' = hooks
               /\ hist' = [hist EXCEPT !.results = @ + 1]
    /\ UNCHANGED <<stop_reason, result, exception, signal, future, CB, fn_calls,
                   expiry, expired, sleep, is_premature_exit>>

\* mutant: the finally clause always calls future.set_result(result)
RunFinallyResolve_result ==
    /\ Unit("resolve", "exit")
    /\ IF ~future_cancelled
          THEN /\ future' = set_result(future, result)
               /\ CB' = Callback(CB, future')
               /\ fn_calls' = DoneCallbacks(fn_calls, future')
               /\ hist' = [hist EXCEPT !.resolved = @ + 1]
          ELSE UNCHANGED <<future, CB, fn_calls, hist>>
    /\ UNCHANGED <<stop_reason, result, exception, signal, thr_result, thr_exception,
                   hooks, expiry, expired, sleep, is_premature_exit>>

\* run(): finally, second part: the future is set, which runs its callbacks
RunFinallyResolve ==
    /\ Unit("resolve", "exit")
    /\ IF ~future_cancelled
          THEN /\ future' = IF exception # None THEN set_exception(future, exception)
                                                ELSE set_result(future, result)
               /\ CB' = Callback(CB, future')
               /\ fn_calls' = DoneCallbacks(fn_calls, future')
               /\ hist' = [hist EXCEPT !.resolved = @ + 1]
          ELSE UNCHANGED <<future, CB, fn_calls, hist>>
    /\ UNCHANGED <<stop_reason, result, exception, signal, thr_result, thr_exception,
                   hooks, expiry, expired, sleep, is_premature_exit>>

\* mutant: DaemonThread does not override _on_exit
OnExit_base ==
    /\ Unit("exit", "ret")
    /\ hooks' = hooks \o <<"on_exit", "done">>
    /\ hist' = [hist EXCEPT !.stop_at_exit = IsDaemonKind(kind) /\ stopping_event]
    /\ UNCHANGED <<is_premature_exit, stop_reason>>
    /\ UNCHANGED <<result, exception, signal, thr_result, thr_exception, future, CB, fn_calls,
                   expiry, expired, sleep>>

\* mutant: DaemonThread._on_exit does not ask is_stopping()
OnExit_unchecked ==
    /\ Unit("exit", "ret")
    /\ IF IsDaemonKind(kind)
          THEN /\ is_premature_exit' = TRUE
               /\ stop_reason' = IF stop_reason = None THEN "premature" ELSE stop_reason
               /\ hooks' = hooks \o <<"on_exit", "on_premature_exit", "done">>
          ELSE /\ hooks' = hooks \o <<"on_exit", "done">>
               /\ UNCHANGED <<is_premature_exit, stop_reason>>
    /\ hist' = [hist EXCEPT !.stop_at_exit = IsDaemonKind(kind) /\ stopping_event]
    /\ UNCHANGED <<result, exception, signal, thr_result, thr_exception, future, CB, fn_calls,
                   expiry, expired, sleep>>

\* _on_exit: Thread's logs 'done'; DaemonThread's returns if a stop was
\* requested, else flags the premature exit, calls _on_premature_exit and
\* then Thread's
OnExit ==
    /\ Unit("exit", "ret")
    /\ IF IsDaemonKind(kind)
          THEN IF is_stopping
                  THEN /\ hooks' = Append(hooks, "on_exit")
                       /\ UNCHANGED <<is_premature_exit, stop_reason>>
                  ELSE /\ is_premature_exit' = TRUE
                       /\ stop_reason' = IF stop_reason = None THEN "premature" ELSE stop_reason
                       /\ hooks' = hooks \o <<"on_exit", "on_premature_exit", "done">>
          ELSE /\ hooks' = hooks \o <<"on_exit", "done">>
               /\ UNCHANGED <<is_premature_exit, stop_reason>>
    /\ hist' = [hist EXCEPT !.stop_at_exit = IsDaemonKind(kind) /\ stopping_event]
    /\ UNCHANGED <<result, exception, signal, thr_result, thr_exception, future, CB, fn_calls,
                   expiry, expired, sleep>>

\* run() has returned: the native thread ends and is no longer alive
Terminate ==
    /\ Unit("ret", "done")
    /\ UNCHANGED <<stop_reason, hist>>
    /\ UNCHANGED unitVars

\* ------------------------------------------------------------ main bodies
\* the timeouts a body passes to _sleep; <<>> is None (no timeout), which
\* only Thread._sleep accepts. How long a timeout is matters to an expiring
\* task alone, which compares it with the clock; the wait of any other unit
\* may time out at any moment.
Timeouts(k) == IF IsExpiringKind(k) THEN {<<t>> : t \in 0..MaxTime} ELSE {<<>>, <<0>>}

\* where a body continues after a _sleep that returned
Resume(k) == IF k = "Daemon" THEN "iter" ELSE "main"

\* kinds whose _main is written by the subclass (samples: Noop*, Idle*,
\* Aborting*, Failed*, Slow*), as opposed to DaemonThread._main's loop
HasCustomMain(k) == k \notin {"Daemon", "EventLoop"}

Body ==
    /\ UNCHANGED <<kind, stopping_event, stop_reason, now, expiry_raw, event, obs, ctx, call, hist>>
    /\ UNCHANGED <<thr_result, thr_exception, future, CB, fn_calls, hooks, expiry, expired,
                   is_premature_exit>>

\* _main returns v (FunctionThread._main: the target returns v)
BodyReturn(v) ==
    /\ HasCustomMain(kind)
    /\ pc = "main"
    /\ pc' = "finally"
    /\ result' = v
    /\ Body
    /\ UNCHANGED <<exception, signal, sleep>>

\* _main raises an ordinary error (samples._fail)
BodyRaise ==
    /\ HasCustomMain(kind)
    /\ pc = "main"
    /\ pc' = "finally"
    /\ exception' = SAMPLE_EXCEPTION
    /\ Body
    /\ UNCHANGED <<result, signal, sleep>>

\* the body calls self._sleep(timeout) (self._stop_if_requested() is
\* self._sleep(0)). Thread._sleep goes straight to the wait;
\* _ExpiringTaskThread._sleep first checks the expiry.
BodySleep(timeout) ==
    /\ kind # "Function"
    /\ pc = Resume(kind)
    /\ IF IsExpiringKind(kind)
          THEN IF check_expiry(now, expiry)
                  THEN signal' = "expired" /\ pc' = "on_stop" /\ sleep' = sleep
                  ELSE /\ signal' = signal
                       /\ pc' = "clamp"
                       /\ sleep' = [timeout |-> timeout, wake |-> <<>>, clamp |-> FALSE]
          ELSE /\ signal' = signal
               /\ pc' = "sleeping"
               /\ sleep' = [timeout |-> timeout, wake |-> <<>>, clamp |-> FALSE]
    /\ Body
    /\ UNCHANGED <<result, exception>>

Max(a, b) == IF a >= b THEN a ELSE b

\* _ExpiringTaskThread._sleep: the timeout is cut so as not to sleep beyond
\* the expiry, and the wait begins
SleepClamp ==
    /\ pc = "clamp"
    /\ pc' = "sleeping"
    /\ LET max_timeout == expiry[1] - now
           cut == sleep.timeout[1] > max_timeout
           timeout == IF cut THEN Max(0, max_timeout) ELSE sleep.timeout[1]
       IN sleep' = [timeout |-> <<timeout>>, wake |-> <<now + timeout>>, clamp |-> cut]
    /\ Body
    /\ UNCHANGED <<result, exception, signal>>

\* self._stopping_event.wait(timeout): has the timeout passed?
TimedOut ==
    IF IsExpiringKind(kind) THEN now >= sleep.wake[1] ELSE sleep.timeout # <<>>

\* mutant: _sleep clears the event once it has seen it set
SleepWake_clear ==
    /\ pc = "sleeping"
    /\ stopping_event \/ TimedOut
    /\ IF stopping_event
          THEN signal' = "stop" /\ pc' = "on_stop"
          ELSE IF IsExpiringKind(kind) /\ (sleep.clamp \/ check_expiry(now, expiry))
                  THEN signal' = "expired" /\ pc' = "on_stop"
                  ELSE signal' = signal /\ pc' = Resume(kind)
    /\ sleep' = NoSleep
    /\ stopping_event' = FALSE
    /\ UNCHANGED <<kind, stop_reason, now, expiry_raw, event, obs, ctx, call, hist>>
    /\ UNCHANGED <<thr_result, thr_exception, future, CB, fn_calls, hooks, expiry, expired,
                   is_premature_exit>>
    /\ UNCHANGED <<result, exception>>

\* mutant: _sleep drops the value of wait() and always returns
SleepWake_return ==
    /\ pc = "sleeping"
    /\ stopping_event \/ TimedOut
    /\ signal' = signal
    /\ pc' = Resume(kind)
    /\ sleep' = NoSleep
    /\ Body
    /\ UNCHANGED <<result, exception>>

\* mutant: a sleep whose timeout was cut raises _Expired whatever the wait
\* reported
SleepWake_expire_first ==
    /\ pc = "sleeping"
    /\ stopping_event \/ TimedOut
    /\ IF IsExpiringKind(kind) /\ sleep.clamp
          THEN signal' = "expired" /\ pc' = "on_stop"
          ELSE IF stopping_event
                  THEN signal' = "stop" /\ pc' = "on_stop"
                  ELSE IF IsExpiringKind(kind) /\ check_expiry(now, expiry)
                          THEN signal' = "expired" /\ pc' = "on_stop"
                          ELSE signal' = signal /\ pc' = Resume(kind)
    /\ sleep' = NoSleep
    /\ hist' = [hist EXCEPT !.clamp_stop = @ \/ (sleep.clamp /\ stopping_event)]
    /\ UNCHANGED <<kind, stopping_event, stop_reason, now, expiry_raw, event, obs, ctx, call>>
    /\ UNCHANGED <<thr_result, thr_exception, future, CB, fn_calls, hooks, expiry, expired,
                   is_premature_exit>>
    /\ UNCHANGED <<result, exception>>

\* Thread._sleep: self._stopping_event.wait(timeout) returns, and _ThreadStop
\* is raised if the event is set; _ExpiringTaskThread._sleep then raises
\* _Expired if the timeout had been cut or the expiry has passed
SleepWake ==
    /\ pc = "sleeping"
    /\ stopping_event \/ TimedOut
    /\ IF stopping_event
          THEN signal' = "stop" /\ pc' = "on_stop"
          ELSE IF IsExpiringKind(kind) /\ (sleep.clamp \/ check_expiry(now, expiry))
                  THEN signal' = "expired" /\ pc' = "on_stop"
                  ELSE signal' = signal /\ pc' = Resume(kind)
    /\ sleep' = NoSleep
    /\ hist' = [hist EXCEPT !.clamp_stop = @ \/ (sleep.clamp /\ stopping_event)]
    /\ UNCHANGED <<kind, stopping_event, stop_reason, now, expiry_raw, event, obs, ctx, call>>
    /\ UNCHANGED <<thr_result, thr_exception, future, CB, fn_calls, hooks, expiry, expired,
                   is_premature_exit>>
    /\ UNCHANGED <<result, exception>>

\* DaemonThread._main: `while not self.is_stopping()`; when the loop ends
\* _main returns None
DaemonLoop ==
    /\ kind \in {"Daemon", "EventLoop"}
    /\ pc = "main"
    /\ pc' = IF is_stopping THEN "finally" ELSE "iter"
    /\ Body
    /\ UNCHANGED <<result, exception, signal, sleep>>

\* mutant: the loop does not catch an iteration's error, which leaves _main
DaemonIteration_escalate(err) ==
    /\ kind = "Daemon"
    /\ pc = "iter"
    /\ pc' = IF err THEN "finally" ELSE "main"
    /\ exception' = IF err THEN SAMPLE_EXCEPTION ELSE exception
    /\ UNCHANGED <<kind, stopping_event, stop_reason, now, expiry_raw, event, obs, ctx, call, hist>>
    /\ UNCHANGED <<result, signal, thr_result, thr_exception, future, CB, fn_calls, hooks,
                   expiry, expired, sleep, is_premature_exit>>

\* DaemonThread._main: _main_iteration returns, or (err) raises an ordinary
\* error which is handed to _on_error, which logs it; either way the loop
\* goes on
DaemonIteration(err) ==
    /\ kind = "Daemon"
    /\ Unit("iter", "main")
    /\ hist' = [hist EXCEPT !.on_error = @ \/ err]
    /\ UNCHANGED <<stop_reason>>
    /\ UNCHANGED unitVars

\* ------------------------------------------------------- the specification
Next ==
    \/ \E c \in Callers, r \in ReasonArgs : Stop(c, r)
    \/ \E c \in Callers, r \in ReasonArgs : Cancel(c, r)
    \/ \E c \in Callers, r \in ReasonArgs : FunctionCancel(c, r)
    \/ \E c \in Callers : FunctionCancelSuper(c)
    \/ \E c \in Callers, r \in ReasonArgs : RequestStopDirect(c, r)
    \/ \E c \in Callers : RequestStopReason(c)
    \/ \E c \in Callers : RequestStopSet(c)
    \/ Tick
    \/ Start
    \/ RunBegin
    \/ RunPreStartCheck
    \/ OnEnter
    \/ OnEnterRaise
    \/ OnEnterCheckExpiry
    \/ HandleStopBeforeStart
    \/ \E v \in Values : BodyReturn(v)
    \/ BodyRaise
    \/ \E t \in Timeouts(kind) : BodySleep(t)
    \/ SleepClamp
    \/ SleepWake
    \/ DaemonLoop
    \/ \E err \in BOOLEAN : DaemonIteration(err)
    \/ OnThreadStop
    \/ RunFinallyCapture
    \/ RunFinallyResolve
    \/ OnExit
    \/ Terminate

Spec == Init /\ [][Next]_vars

\* the steps of run() itself and of the framework's own methods: the native
\* thread, once started, is scheduled until run() returns. What a _main body
\* chooses to do (return, raise, sleep again) is left to the body.
Wrapper ==
    \/ RunBegin
    \/ RunPreStartCheck
    \/ OnEnter
    \/ OnEnterCheckExpiry
    \/ HandleStopBeforeStart
    \/ SleepClamp
    \/ SleepWake
    \/ DaemonLoop
    \/ OnThreadStop
    \/ RunFinallyCapture
    \/ RunFinallyResolve
    \/ OnExit
    \/ Terminate

LiveSpec == Spec /\ WF_vars(Wrapper)

\* what a body does next: a well-behaved body does not hang, it goes on to its
\* next checkpoint, return or error
BodyStep ==
    \/ \E t \in Timeouts(kind) : BodySleep(t)
    \/ \E v \in Values : BodyReturn(v)
    \/ BodyRaise
    \/ \E err \in BOOLEAN : DaemonIteration(err)

\* the run wrapper is scheduled, bodies are well-behaved and the clock advances
FairSpec == LiveSpec /\ WF_vars(BodyStep) /\ WF_vars(Tick)

\* --------------------------------------------------------- the event loop
\* EventLoopThread: a DaemonThread whose _main_iteration reads an event and
\* handles it. event.cur is the iteration's local `event`; event.calls are the
\* calls made so far of _handle_event, _on_event_error and _on_error, with
\* their arguments. What the subclass's methods do is an input: they return,
\* raise an ordinary error, or raise _ThreadStop out of a _sleep or
\* _stop_if_requested, which happens only with the event set.
Events == {"ev1"}
ReadOutcomes == Events \cup {None, "ReadError", "_ThreadStop"}
HandleOutcomes == {"return", "HandleError", "_ThreadStop"}
PolicyOutcomes == {"return", "PolicyError", "_ThreadStop"}

\* what an event loop step leaves alone
LoopStep ==
    /\ kind = "EventLoop"
    /\ UNCHANGED <<kind, stopping_event, stop_reason, now, expiry_raw, obs, ctx, call, hist>>
    /\ UNCHANGED <<result, exception, thr_result, thr_exception, future, CB, fn_calls,
                   hooks, expiry, expired, sleep, is_premature_exit>>

\* _ThreadStop leaves _main_iteration and _main for run()'s handler
StopRaised ==
    /\ stopping_event
    /\ signal' = "stop"
    /\ pc' = "on_stop"
    /\ event' = [event EXCEPT !.cur = None]

\* an ordinary error e reaches DaemonThread._main's `except Exception`, which
\* calls _on_error(e); the default logs it and the loop goes on
OnError(e) ==
    /\ signal' = signal
    /\ pc' = "main"
    /\ event' = [cur |-> None, calls |-> event.calls \cup {<<"on_error", e>>}]

\* event = self._read_next_event()
ReadNextEvent(r) ==
    /\ pc = "iter"
    /\ LoopStep
    /\ CASE r = "_ThreadStop" -> StopRaised
         [] r = "ReadError" -> OnError(r)
         [] OTHER -> /\ signal' = signal
                     /\ pc' = "got"
                     /\ event' = [event EXCEPT !.cur = r]

\* mutant: the iteration hands whatever was read to _handle_event
CheckEvent_any ==
    /\ pc = "got"
    /\ LoopStep
    /\ signal' = signal
    /\ pc' = "handle"
    /\ event' = [event EXCEPT !.calls = @ \cup {<<"handle_event", event.cur>>}]

\* `if event is None: return`, else self._handle_event(event) is called
CheckEvent ==
    /\ pc = "got"
    /\ LoopStep
    /\ signal' = signal
    /\ IF event.cur = None
          THEN pc' = "main" /\ event' = event
          ELSE /\ pc' = "handle"
               /\ event' = [event EXCEPT !.calls = @ \cup {<<"handle_event", event.cur>>}]

\* mutant: _main_iteration has no try around _handle_event
HandleEvent_escalate(r) ==
    /\ pc = "handle"
    /\ LoopStep
    /\ CASE r = "_ThreadStop" -> StopRaised
         [] r = "HandleError" -> OnError(r)
         [] OTHER -> /\ signal' = signal
                     /\ pc' = "main"
                     /\ event' = [event EXCEPT !.cur = None]

\* self._handle_event(event) returns, or raises: _ThreadStop is re-raised, an
\* ordinary error e is handed to self._on_event_error(event, e)
HandleEvent(r) ==
    /\ pc = "handle"
    /\ LoopStep
    /\ CASE r = "_ThreadStop" -> StopRaised
         [] r = "HandleError" ->
                /\ signal' = signal
                /\ pc' = "event_error"
                /\ event' = [event EXCEPT
                                !.calls = @ \cup {<<"on_event_error", event.cur, r>>}]
         [] OTHER -> /\ signal' = signal
                     /\ pc' = "main"
                     /\ event' = [event EXCEPT !.cur = None]

\* self._on_event_error(event, e) returns (the default logs), or an overriding
\* one raises, which leaves _main_iteration
OnEventError(r) ==
    /\ pc = "event_error"
    /\ LoopStep
    /\ CASE r = "_ThreadStop" -> StopRaised
         [] r = "PolicyError" -> OnError(r)
         [] OTHER -> /\ signal' = signal
                     /\ pc' = "main"
                     /\ event' = [event EXCEPT !.cur = None]

EventLoopInit == InitOf({"EventLoop"}) /\ ctx = NoCtx

EventLoopNext ==
    \/ \E c \in Callers, r \in ReasonArgs : Stop(c, r)
    \/ \E c \in Callers : RequestStopReason(c)
    \/ \E c \in Callers : RequestStopSet(c)
    \/ Start
    \/ RunBegin
    \/ RunPreStartCheck
    \/ OnEnter
    \/ OnEnterRaise
    \/ HandleStopBeforeStart
    \/ DaemonLoop
    \/ \E r \in ReadOutcomes : ReadNextEvent(r)
    \/ CheckEvent
    \/ \E r \in HandleOutcomes : HandleEvent(r)
    \/ \E r \in PolicyOutcomes : OnEventError(r)
    \/ OnThreadStop
    \/ RunFinallyCapture
    \/ RunFinallyResolve
    \/ OnExit
    \/ Terminate

\* an EventLoopThread and its controllers
EventLoopSpec == EventLoopInit /\ [][EventLoopNext]_vars

\* ------------------------------------------------ ThreadLifeCycleContext
\* A ThreadLifeCycleContext around a block, and the threads it was given.
\* Of a managed thread the context uses is_started, start, is_alive, stop or
\* cancel, join and reraise: ctx.threads[i] tells whether thread i is new,
\* alive, ended or aborted, ctx.classes[i] its class. ctx.asked lists the
\* threads on which stop() / cancel() was called and accepted, in order;
\* ctx.joined those whose join() returned True.
CtxThreads == 2
CtxClasses == {"DaemonThread", "TaskThread", "FunctionThread"}
Interrupt == "KeyboardInterrupt"

CtxInits ==
    [pc : {"new"},
     classes : [1..CtxThreads -> CtxClasses],
     threads : {[i \in 1..CtxThreads |-> "new"]},
     should_stop : BOOLEAN,
     should_join : BOOLEAN,
     join_timeout : {None, "t"},
     should_raise_on_timeout : BOOLEAN,
     should_reraise : BOOLEAN,
     suppress_keyboard_interrupt : BOOLEAN,
     stopped : {FALSE},
     exc_value : {None},
     new_exception : {None},
     interrupt : {None},
     i : {0},
     round : {1},
     asked : {<<>>},
     joined : {<<>>},
     out : {None}]

CtxFrame ==
    /\ UNCHANGED <<kind, pc, stopping_event, stop_reason, now, expiry_raw, event, obs,
                   call, hist>>
    /\ UNCHANGED unitVars

CtxAlive(i) == ctx.threads[i] = "alive"

\* __enter__: every thread not yet started is started
CtxEnter ==
    /\ ctx.pc = "new"
    /\ ctx' = [ctx EXCEPT !.pc = "block",
                          !.threads = [i \in 1..CtxThreads |->
                                          IF @[i] = "new" THEN "alive" ELSE @[i]]]
    /\ CtxFrame

\* a managed thread terminates: it returns, or aborts with an error
CtxThreadEnds(i, how) ==
    /\ ctx.pc # "none"
    /\ CtxAlive(i)
    /\ ctx' = [ctx EXCEPT !.threads[i] = how]
    /\ CtxFrame

\* self._stop(): self._stopped = True, then the loop over reversed(threads)
CtxStop(c, round) ==
    [c EXCEPT !.pc = "stop", !.stopped = TRUE, !.i = CtxThreads, !.round = round]

\* the join section of __exit__: `if self.should_join`, the first loop
CtxJoins(c) ==
    IF c.should_join
        THEN [c EXCEPT !.pc = "join", !.i = CtxThreads, !.round = 1]
        ELSE [c EXCEPT !.pc = "report"]

\* the block ends, normally or with an exception, and __exit__ begins:
\* `if self.should_stop or isinstance(exc_value, KeyboardInterrupt)`
CtxExit(exc) ==
    /\ ctx.pc = "block"
    /\ ctx' = IF ctx.should_stop \/ exc = Interrupt
                 THEN CtxStop([ctx EXCEPT !.exc_value = exc], 1)
                 ELSE CtxJoins([ctx EXCEPT !.exc_value = exc])
    /\ CtxFrame

\* _stop's loop: the next thread, or the loop is over; _stop_thread returns
\* at once for a thread that is not alive
CtxStopThread ==
    /\ ctx.pc = "stop"
    /\ ctx' = IF ctx.i = 0
                 THEN (IF ctx.round = 1 THEN CtxJoins(ctx)
                                        ELSE [ctx EXCEPT !.pc = "join", !.i = CtxThreads])
              ELSE IF ~CtxAlive(ctx.i)
                 THEN [ctx EXCEPT !.i = @ - 1]
              ELSE [ctx EXCEPT !.pc = "request"]
    /\ CtxFrame

\* _stop_thread: thread.cancel(reason) for a TaskThread, else
\* thread.stop(reason). FunctionThread.cancel raises RuntimeError if the thread
\* is alive, which leaves _stop and __exit__.
CtxRequest ==
    /\ ctx.pc = "request"
    /\ ctx' = IF ctx.classes[ctx.i] = "FunctionThread" /\ CtxAlive(ctx.i)
                 THEN [ctx EXCEPT !.pc = "raised", !.out = "RuntimeError"]
                 ELSE [ctx EXCEPT !.pc = "stop", !.i = @ - 1,
                                  !.asked = Append(@, ctx.i)]
    /\ CtxFrame

\* mutant: join() returns at once, done, whether or not the thread has ended
CtxJoinOutcomes_nowait(c) ==
    LET t == c.threads[c.i]
    IN (IF t = "aborted" /\ c.should_reraise THEN {SAMPLE_EXCEPTION} ELSE {None})
       \cup {Interrupt}

\* what _join_thread(thread) raises (None: it returns): join(join_timeout)
\* gives is_done; a done thread is reraised (a task with
\* suppress_cancelled=True), a timeout raises TimeoutError if so configured;
\* a KeyboardInterrupt may arrive while it waits
CtxJoinOutcomes(c) ==
    LET t == c.threads[c.i]
    IN (IF t = "alive"
           THEN (IF c.join_timeout = None THEN {}
                 ELSE IF c.should_raise_on_timeout THEN {TimeoutError} ELSE {None})
           ELSE (IF t = "aborted" /\ c.should_reraise THEN {SAMPLE_EXCEPTION}
                 ELSE {None}))
       \cup {Interrupt}

\* _report_exception(original_exception, new_exception)
CtxReport(c, new_exception) ==
    LET orig == IF c.suppress_keyboard_interrupt /\ c.exc_value = Interrupt
                   THEN None ELSE c.exc_value
        new == IF c.suppress_keyboard_interrupt /\ new_exception = Interrupt
                  THEN None ELSE new_exception
    IN IF orig # None THEN [c EXCEPT !.pc = "returned", !.out = "False"]
       ELSE IF new # None THEN [c EXCEPT !.pc = "raised", !.out = new]
       ELSE [c EXCEPT !.pc = "returned", !.out = "True"]

\* the loops over reversed(self.threads) that join: the first breaks on an
\* error and notes an interrupt; the second, after an interrupt, reports an
\* error at once and lets a further interrupt through
CtxJoinThread(e) ==
    /\ ctx.pc = "join"
    /\ ctx.i > 0
    /\ e \in CtxJoinOutcomes(ctx)
    /\ LET c == IF ~CtxAlive(ctx.i) /\ e # Interrupt
                    THEN [ctx EXCEPT !.joined = Append(@, ctx.i)]
                    ELSE ctx
       IN ctx' = IF e = None THEN [c EXCEPT !.i = @ - 1]
                 ELSE IF c.round = 1
                    THEN [c EXCEPT !.i = 0, !.new_exception = e,
                                   !.interrupt = IF e = Interrupt THEN e ELSE @]
                 ELSE IF e = Interrupt
                    THEN [c EXCEPT !.pc = "raised", !.out = e]
                 ELSE CtxReport(c, e)
    /\ CtxFrame

\* after a join loop: an interrupt while joining stops the threads, unless
\* that was done, and joins again; then the outcome is reported
CtxAfterJoin ==
    /\ ctx.pc = "join"
    /\ ctx.i = 0
    /\ ctx' = IF ctx.round = 2 THEN CtxReport(ctx, ctx.interrupt)
              ELSE IF ctx.interrupt = None THEN CtxReport(ctx, ctx.new_exception)
              ELSE IF ~ctx.stopped THEN CtxStop(ctx, 2)
              ELSE CtxReport(ctx, ctx.interrupt)
    /\ CtxFrame

\* __exit__ with should_join false: return self._report_exception(...)
CtxReturn ==
    /\ ctx.pc = "report"
    /\ ctx' = CtxReport(ctx, ctx.new_exception)
    /\ CtxFrame

CtxInit == InitOf({"Thread"}) /\ ctx \in CtxInits

CtxNext ==
    \/ CtxEnter
    \/ \E i \in 1..CtxThreads, how \in {"ended", "aborted"} : CtxThreadEnds(i, how)
    \/ \E exc \in {None, Interrupt, SAMPLE_EXCEPTION} : CtxExit(exc)
    \/ CtxStopThread
    \/ CtxRequest
    \/ \E e \in {None, TimeoutError, SAMPLE_EXCEPTION, Interrupt} : CtxJoinThread(e)
    \/ CtxAfterJoin
    \/ CtxReturn

\* a context, its block and its threads; the unit variables stay idle
CtxSpec == CtxInit /\ [][CtxNext]_vars

\* ------------------------------------------------ an expiring task's steps
\* a subclass of _ExpiringTaskThread whose _on_expiry returns a value
ExpiryInit == InitOf({"ValueExpiry"}) /\ ctx = NoCtx

ExpiryNext ==
    \/ \E c \in Callers, r \in ReasonArgs : Cancel(c, r)
    \/ \E c \in Callers : RequestStopReason(c)
    \/ \E c \in Callers : RequestStopSet(c)
    \/ Tick
    \/ Start
    \/ RunBegin
    \/ RunPreStartCheck
    \/ OnEnter
    \/ OnEnterRaise
    \/ OnEnterCheckExpiry
    \/ HandleStopBeforeStart
    \/ \E v \in Values : BodyReturn(v)
    \/ BodyRaise
    \/ \E t \in Timeouts(kind) : BodySleep(t)
    \/ SleepClamp
    \/ SleepWake
    \/ OnThreadStop
    \/ RunFinallyCapture
    \/ RunFinallyResolve
    \/ OnExit
    \/ Terminate

ExpirySpec == ExpiryInit /\ [][ExpiryNext]_vars

\* ------------------------------------------------------ status() in steps
\* A controller's call of status(), one read of the unit per step, while the
\* unit runs on. obs.pc is the next statement of the call, obs.arg the local
\* `stopping`, obs.out the value returned.
StatusKinds == {"Thread", "Task"}

StatusFrame ==
    /\ UNCHANGED <<kind, pc, stopping_event, stop_reason, now, expiry_raw, event,
                   ctx, call, hist, fn_calls>>
    /\ UNCHANGED <<result, exception, signal, thr_result, thr_exception, future, CB,
                   hooks, expiry, expired, sleep, is_premature_exit>>

StatusAt(at, arg) == [op |-> "status", pc |-> at, arg |-> arg, out |-> None]
StatusReturn(value) == [op |-> "status", pc |-> "idle", arg |-> None, out |-> value]
Bool(b) == IF b THEN "True" ELSE "False"

\* status() is called: TaskThread.status begins with is_cancelled(),
\* Thread.status with the read of the event
StatusCall ==
    /\ obs.pc = "idle"
    /\ obs' = StatusAt(IF IsTaskKind(kind) THEN "is_cancelled" ELSE "stopping", None)
    /\ StatusFrame

\* TaskThread.is_cancelled: self.is_stopped() ...
StatusIsCancelled ==
    /\ obs.op = "status" /\ obs.pc = "is_cancelled"
    /\ obs' = StatusAt(IF is_stopped THEN "is_set" ELSE "stopping", None)
    /\ StatusFrame

\* ... and self._stopping_event.is_set(); `if self.is_cancelled(): return
\* ThreadStatus.cancelled`, else super().status()
StatusIsSet ==
    /\ obs.op = "status" /\ obs.pc = "is_set"
    /\ obs' = IF stopping_event THEN StatusReturn("cancelled")
                                ELSE StatusAt("stopping", None)
    /\ StatusFrame

\* Thread.status: stopping = self._stopping_event.is_set()
StatusStopping ==
    /\ obs.op = "status" /\ obs.pc = "stopping"
    /\ obs' = StatusAt("is_started", Bool(stopping_event))
    /\ StatusFrame

\* if not self.is_started(): return stopped_before_starting / not_started
StatusIsStarted ==
    /\ obs.op = "status" /\ obs.pc = "is_started"
    /\ obs' = IF is_started THEN StatusAt("is_alive", obs.arg)
              ELSE StatusReturn(IF obs.arg = "True" THEN "stopped_before_starting"
                                                    ELSE "not_started")
    /\ StatusFrame

\* elif self.is_alive(): return stopping / running
StatusIsAlive ==
    /\ obs.op = "status" /\ obs.pc = "is_alive"
    /\ obs' = IF is_alive
                 THEN StatusReturn(IF obs.arg = "True" THEN "stopping" ELSE "running")
                 ELSE StatusAt("is_aborted", obs.arg)
    /\ StatusFrame

\* elif self.is_aborted(): return aborted
StatusIsAborted ==
    /\ obs.op = "status" /\ obs.pc = "is_aborted"
    /\ obs' = IF is_aborted THEN StatusReturn("aborted")
                            ELSE StatusAt("assert", obs.arg)
    /\ StatusFrame

\* else: assert self.is_stopped(); return stopped
StatusAssert ==
    /\ obs.op = "status" /\ obs.pc = "assert"
    /\ obs' = StatusReturn(IF is_stopped THEN "stopped" ELSE "AssertionError")
    /\ StatusFrame

StatusInit == InitOf(StatusKinds) /\ ctx = NoCtx

StatusNext ==
    \/ \E c \in Callers, r \in ReasonArgs : Stop(c, r)
    \/ \E c \in Callers, r \in ReasonArgs : Cancel(c, r)
    \/ \E c \in Callers : RequestStopReason(c)
    \/ \E c \in Callers : RequestStopSet(c)
    \/ Start
    \/ RunBegin
    \/ RunPreStartCheck
    \/ OnEnter
    \/ OnEnterRaise
    \/ HandleStopBeforeStart
    \/ \E v \in Values : BodyReturn(v)
    \/ BodyRaise
    \/ \E t \in Timeouts(kind) : BodySleep(t)
    \/ SleepWake
    \/ OnThreadStop
    \/ RunFinallyCapture
    \/ RunFinallyResolve
    \/ OnExit
    \/ Terminate
    \/ StatusCall
    \/ StatusIsCancelled
    \/ StatusIsSet
    \/ StatusStopping
    \/ StatusIsStarted
    \/ StatusIsAlive
    \/ StatusIsAborted
    \/ StatusAssert

\* a Thread or a TaskThread, its controllers' stop requests, and a controller
\* that calls status()
StatusSpec == StatusInit /\ [][StatusNext]_vars

\* ------------------------------------------------- queries by a controller
\* What a controller thread asks of a unit: reraise(), join() and
\* future.cancel(). obs holds the call and what it gave back: out is the error
\* raised, or the value returned. The methods are those of Thread, with
\* TaskThread's reraise; they are explored for the kinds of QueryKinds.
QueryKinds == {"Thread", "Task"}
SuppressArgs(k) == IF IsTaskKind(k) THEN {"suppress", "raise"} ELSE {"None"}
JoinTimeouts == {"None", "timeout"}

\* Thread.reraise(): the error raised in the caller, None if it returns
Thread_reraise == thr_exception

\* mutant: TaskThread does not override reraise
TaskThread_reraise_base(suppress_cancelled) == Thread_reraise

\* TaskThread.reraise(suppress_cancelled)
TaskThread_reraise(suppress_cancelled) ==
    IF Thread_reraise = CancelledError /\ suppress_cancelled = "suppress"
        THEN None
        ELSE Thread_reraise

\* a controller calls reraise(); the single read of the error is one step
Reraise(s) ==
    /\ obs.pc = "idle"
    /\ obs' = [op |-> "reraise", pc |-> "idle", arg |-> s,
               out |-> IF IsTaskKind(kind) THEN TaskThread_reraise(s)
                                           ELSE Thread_reraise]
    /\ UNCHANGED <<kind, pc, stopping_event, stop_reason, now, expiry_raw, event,
                   ctx, call, hist>>
    /\ UNCHANGED unitVars

\* a controller calls join(timeout): threading.Thread.join raises RuntimeError
\* for a thread that was not started, else it starts to wait
JoinCall(timeout) ==
    /\ obs.pc = "idle"
    /\ obs' = IF is_started
                 THEN [op |-> "join", pc |-> "waiting", arg |-> timeout, out |-> None]
                 ELSE [op |-> "join", pc |-> "idle", arg |-> timeout,
                       out |-> "RuntimeError"]
    /\ UNCHANGED <<kind, pc, stopping_event, stop_reason, now, expiry_raw, event,
                   ctx, call, hist>>
    /\ UNCHANGED unitVars

\* super().join(timeout) returns: the thread has ended, or the timeout elapsed
JoinWait ==
    /\ obs.op = "join" /\ obs.pc = "waiting"
    /\ ~is_alive \/ obs.arg # "None"
    /\ obs' = [obs EXCEPT !.pc = "check"]
    /\ UNCHANGED <<kind, pc, stopping_event, stop_reason, now, expiry_raw, event,
                   ctx, call, hist>>
    /\ UNCHANGED unitVars

\* mutant: join returns True whenever the wait is over
JoinReturn_true ==
    /\ obs.op = "join" /\ obs.pc = "check"
    /\ obs' = [obs EXCEPT !.pc = "idle", !.out = "True"]
    /\ UNCHANGED <<kind, pc, stopping_event, stop_reason, now, expiry_raw, event,
                   ctx, call, hist>>
    /\ UNCHANGED unitVars

\* return not self.is_alive()
JoinReturn ==
    /\ obs.op = "join" /\ obs.pc = "check"
    /\ obs' = [obs EXCEPT !.pc = "idle",
                          !.out = IF is_alive THEN "False" ELSE "True"]
    /\ UNCHANGED <<kind, pc, stopping_event, stop_reason, now, expiry_raw, event,
                   ctx, call, hist>>
    /\ UNCHANGED unitVars

\* mutant: Future.cancel of the base class: a pending future is cancelled
Future_cancel(f) ==
    [future |-> IF f.state = PENDING THEN [f EXCEPT !.state = CANCELLED] ELSE f,
     raised |-> None]

\* ThreadFuture.cancel(): raises, the future is left as it is
ThreadFuture_cancel(f) == [future |-> f, raised |-> "NotImplementedError"]

\* a controller calls future.cancel()
FutureCancel ==
    /\ obs.pc = "idle"
    /\ future' = ThreadFuture_cancel(future).future
    /\ obs' = [op |-> "future.cancel", pc |-> "idle", arg |-> None,
               out |-> ThreadFuture_cancel(future).raised]
    /\ UNCHANGED <<kind, pc, stopping_event, stop_reason, now, expiry_raw, event,
                   ctx, call, hist>>
    /\ UNCHANGED <<result, exception, signal, thr_result, thr_exception, CB,
                   fn_calls, hooks, expiry, expired, sleep, is_premature_exit>>

Query ==
    \/ \E s \in SuppressArgs(kind) : Reraise(s)
    \/ \E t \in JoinTimeouts : JoinCall(t)
    \/ JoinWait
    \/ JoinReturn
    \/ FutureCancel

QueryInit == Init /\ kind \in QueryKinds

\* the steps of a Thread or a TaskThread and of its controllers
QueryNext ==
    \/ \E c \in Callers, r \in ReasonArgs : Stop(c, r)
    \/ \E c \in Callers, r \in ReasonArgs : Cancel(c, r)
    \/ \E c \in Callers, r \in ReasonArgs : RequestStopDirect(c, r)
    \/ \E c \in Callers : RequestStopReason(c)
    \/ \E c \in Callers : RequestStopSet(c)
    \/ Start
    \/ RunBegin
    \/ RunPreStartCheck
    \/ OnEnter
    \/ OnEnterRaise
    \/ HandleStopBeforeStart
    \/ \E v \in Values : BodyReturn(v)
    \/ BodyRaise
    \/ \E t \in Timeouts(kind) : BodySleep(t)
    \/ SleepWake
    \/ OnThreadStop
    \/ RunFinallyCapture
    \/ RunFinallyResolve
    \/ OnExit
    \/ Terminate
    \/ Query

\* the unit, its controllers' stop requests and their queries
QuerySpec == QueryInit /\ [][QueryNext]_vars

\* ================================================================= claims
Epilogue == {"resolve", "exit", "ret", "done"}

\* every stop()/cancel() call so far was made after start(), and one of them
\* set the event while the unit was alive
CalledWhileAlive == hist.set_alive /\ ~hist.stop_at_start /\ ~hist.call_at_start

C2_ResultXorError ==
    /\ ~(hist.results > 0 /\ hist.errors > 0)
    /\ ~(thr_result # None /\ thr_exception # None)
    /\ hist.results <= 1
    /\ hist.errors <= 1
    /\ pc \notin Epilogue => (hist.results = 0 /\ hist.errors = 0)
    /\ pc \notin Epilogue => (thr_result = None /\ thr_exception = None)
    /\ pc = "done" => hist.results + hist.errors = 1
    /\ hist.results = 1 => (exception = None /\ thr_exception = None /\ thr_result = result)
    /\ hist.errors = 1 => (exception # None /\ thr_exception = exception /\ thr_result = None)

C2_Witness ==
    /\ pc = "done"
    /\ hist.errors = 1
    /\ hist.results = 0
    /\ thr_exception = SAMPLE_EXCEPTION

\* C3: the result handle of a started unit is resolved exactly once, never
\* before the body or the stop hook has finished, with exactly the result or
\* the error the unit captured; once the unit is no longer alive the handle is
\* done.
C3_HandleResolvedOnce ==
    /\ hist.resolved <= 1
    /\ future_done <=> hist.resolved = 1
    /\ future_done =>
          /\ pc \in {"exit", "ret", "done"}
          /\ future.result = thr_result
          /\ future.exception = thr_exception
          /\ CB.result = (IF thr_exception = None THEN thr_result ELSE Unset)
          /\ CB.exception = (IF thr_exception = None THEN Unset ELSE thr_exception)
    /\ ~future_done => (CB.result = Unset /\ CB.exception = Unset)
    /\ is_stopped => future_done

C3_Witness ==
    /\ pc = "done"
    /\ future_done
    /\ future.exception = TimeoutError
    /\ thr_exception = TimeoutError

Invoked(h) == \E i \in 1..Len(hooks) : hooks[i] = h

BeforeEpilogue == {"check", "enter", "enter_check", "bss", "main", "iter", "clamp",
                   "sleeping", "on_stop", "finally"}

C5_BeforeStart ==
    ~is_started =>
        /\ hist.returned => status = "stopped_before_starting"
        /\ (hist.first = Unset /\ ~hist.returned) => status = "not_started"
        /\ status \in {"not_started", "stopped_before_starting"}
        /\ ~is_stopping
        /\ ~is_stopped
        /\ ~is_aborted
        /\ thr_result = None
        /\ thr_exception = None
        /\ ~future_running
        /\ ~future_done
        /\ CB.result = Unset
        /\ CB.exception = Unset

C5_Witness ==
    /\ ~is_started
    /\ hist.returned
    /\ IsTaskKind(kind)
    /\ stop_reason = "r1"
    /\ status = "stopped_before_starting"

\* C6: stop requests are idempotent and the first reason wins: the recorded
\* stop reason is the reason of the first request, and later calls never
\* overwrite it. Stated here for calls made one after another: a call that
\* begins after an earlier request has set the flag leaves the recorded reason
\* as it found it.
C6_FirstReasonWins ==
    [][\A c \in Callers :
          (call[c].pc = "reason" /\ call[c].late /\ call'[c].pc = "set")
              => stop_reason' = stop_reason]_vars

\* C7: the stop flag is monotonic: once set it stays set in every later state.
C7_StopFlagMonotonic == [][stopping_event => stopping_event']_vars

C7_Witness ==
    /\ stopping_event
    /\ pc = "done"
    /\ hist.stop_at_start
    /\ hist.returned

\* C8: if a stop/cancel was requested before the run wrapper makes its
\* pre-start check, the wrapper invokes the before-start-stop hook instead of
\* the body: neither the on-enter hook nor the main-body hook is ever invoked,
\* and the unit still terminates.
C8_StoppedBeforeCheckSafe ==
    /\ pc \in {"new", "boot", "check"} =>
          (~Invoked("on_enter") /\ ~Invoked("main") /\ ~Invoked("before_start_stop"))
    /\ hist.stop_at_check =>
          /\ ~Invoked("on_enter")
          /\ ~Invoked("main")
          /\ pc # "bss" => Invoked("before_start_stop")
          /\ pc \notin {"enter", "enter_check", "main", "iter", "clamp", "sleeping"}
    /\ (pc \notin {"new", "boot", "check"} /\ ~hist.stop_at_check) =>
          ~Invoked("before_start_stop")

C8_StopBeforeStartSkipsBody ==
    /\ []C8_StoppedBeforeCheckSafe
    /\ (hist.stop_at_check ~> pc = "done")

C8_Witness ==
    /\ hist.stop_at_check
    /\ ~hist.stop_at_start
    /\ pc = "done"
    /\ Invoked("before_start_stop")
    /\ Invoked("on_exit")

\* C9: for every Task Thread variant, cancel() before start() followed by
\* start() makes the unit run its before-start-stop path and terminate with
\* status Cancelled, a CancelledError as captured error and handle outcome,
\* and no success callback, whatever its main body would have done.
C9_CancelledBeforeStartSafe ==
    (IsTaskKind(kind) /\ hist.stop_at_start) =>
        /\ ~Invoked("main")
        /\ ~Invoked("on_enter")
        /\ ~expired
        /\ pc \in {"boot", "check", "bss", "on_stop", "finally", "resolve", "exit", "ret", "done"}
        /\ pc \in {"on_stop", "finally", "resolve", "exit", "ret", "done"} =>
              Invoked("before_start_stop")
        /\ CB.result = Unset
        /\ pc = "done" =>
              /\ status = "cancelled"
              /\ is_aborted
              /\ thr_exception = CancelledError
              /\ thr_result = None
              /\ future_done
              /\ future.exception = CancelledError
              /\ CB.exception = CancelledError

C9_CancelBeforeStart ==
    /\ []C9_CancelledBeforeStartSafe
    /\ ((IsTaskKind(kind) /\ hist.stop_at_start) ~> pc = "done")

C9_Witness ==
    /\ kind = "Timeout"
    /\ hist.stop_at_start
    /\ pc = "done"
    /\ status = "cancelled"
    /\ now = MaxTime

\* C10: whenever a Task Thread's status() is Cancelled, the task is aborted
\* with a cancellation error: is_aborted() is true, its captured error is a
\* CancelledError, its result is unset and its handle raises CancelledError.
\* Stated here for units on which no cancel() call straddles start().
C10_CancelledImpliesCancelledError ==
    (IsTaskKind(kind) /\ status = "cancelled" /\ ~hist.call_at_start) =>
        /\ is_aborted
        /\ thr_exception = CancelledError
        /\ thr_result = None
        /\ future.exception = CancelledError

\* ------------------------------------------------------------ C11 .. C20
AllIdle == \A c \in Callers : call[c].pc = "idle"

\* no stop()/cancel()/_request_stop call has been made so far
NeverRequested ==
    /\ AllIdle
    /\ ~hist.returned
    /\ hist.first = Unset
    /\ ~stopping_event

\* run() has left the try block
PostBody == pc \in {"finally", "resolve", "exit", "ret", "done"}

\* _main was invoked and returned (run()'s local result holds what it returned)
BodyReturned ==
    /\ PostBody
    /\ Invoked("main")
    /\ ~Invoked("on_stop")
    /\ exception = None

\* _on_enter or _main raised an ordinary error (run()'s local exception holds it)
HookRaised == PostBody /\ exception = SAMPLE_EXCEPTION

\* how many times hook h has been invoked
Times(h) == Cardinality({i \in DOMAIN hooks : hooks[i] = h})

\* C11: for any unit whose main body returns v and on which no stop/cancel is
\* ever requested, after termination status() is Stopped, result = v, no error
\* is set, is_aborted() is false, and the handle resolves with v (the
\* done-callback observes v and no error).
C11_ReturnedValueIsResult ==
    (pc = "done" /\ NeverRequested /\ BodyReturned) =>
        /\ status = "stopped"
        /\ thr_result = result
        /\ thr_exception = None
        /\ ~is_aborted
        /\ future.state = FINISHED
        /\ future.result = result
        /\ future.exception = None
        /\ CB = [result |-> result, exception |-> Unset]

C11_Witness ==
    /\ pc = "done" /\ NeverRequested /\ BodyReturned
    /\ result = SAMPLE_RESULT
    /\ CB.result = SAMPLE_RESULT

\* C12: for any unit whose on-enter or main-body hook raises an ordinary error
\* Err and on which no stop/cancel is ever requested, after termination
\* status() is Aborted, the captured error is Err, no result is set, the handle
\* raises Err, and the on-abort hook was invoked exactly once.
C12_RaisedErrorIsCaptured ==
    (pc = "done" /\ NeverRequested /\ HookRaised) =>
        /\ status = "aborted"
        /\ thr_exception = SAMPLE_EXCEPTION
        /\ thr_result = None
        /\ future.state = FINISHED
        /\ future.exception = SAMPLE_EXCEPTION
        /\ future.result = None
        /\ CB = [result |-> Unset, exception |-> SAMPLE_EXCEPTION]
        /\ Times("on_abort") = 1

C12_Witness ==
    /\ pc = "done" /\ NeverRequested /\ HookRaised
    /\ ~Invoked("main")
    /\ status = "aborted"

\* an overridden _on_enter hook raised, so that _main was never invoked
EnterRaised == exception = SAMPLE_EXCEPTION /\ ~Invoked("main")

\* C13: a daemon using the default loop and default error policy never
\* terminates except via a stop request: whatever its iterations do (return, or
\* raise an ordinary error, which goes to on-error), once it has left its body
\* the stop flag is set, no error is captured and it does not end Aborted.
C13_DaemonExitsOnlyOnStop ==
    (kind = "Daemon" /\ ~EnterRaised) =>
        /\ PostBody => stopping_event
        /\ exception = None
        /\ thr_exception = None
        /\ status # "aborted"

C13_Witness ==
    /\ kind = "Daemon"
    /\ pc = "done"
    /\ hist.on_error
    /\ Invoked("main")
    /\ status = "stopped"

\* the stop flag was set before the unit terminated
StoppedBeforeEnd == hist.stop_at_start \/ hist.set_alive

\* C14 (as stated): after a daemon has terminated, is_stopped_prematurely() is
\* true exactly when no stop was requested before it terminated, and
\* on-premature-exit was invoked exactly when the flag is set. Stated here for
\* daemons whose body was entered and on which no stop() call straddles start().
C14_PrematureIffNeverStopped ==
    (IsDaemonKind(kind) /\ pc = "done" /\ Invoked("main") /\ ~hist.call_at_start) =>
        /\ is_premature_exit <=> ~StoppedBeforeEnd
        /\ is_premature_exit <=> Invoked("on_premature_exit")

\* C14 (amended): is_stopped_prematurely() is true exactly when the stop flag
\* was not yet set at the moment the on-exit hook ran: it is true if no stop
\* was ever requested (whether the body returned or failed), false if the
\* flag was set by the pre-start check, never set before the on-exit hook, and
\* on-premature-exit is invoked exactly when the flag is set.
C14_PrematureIffNoStopAtExit ==
    IsDaemonKind(kind) =>
        /\ pc \notin {"ret", "done"} =>
              ~is_premature_exit /\ ~Invoked("on_premature_exit")
        /\ pc \in {"ret", "done"} =>
              /\ is_premature_exit <=> ~hist.stop_at_exit
              /\ NeverRequested => is_premature_exit
              /\ hist.stop_at_check => ~is_premature_exit
        /\ is_premature_exit <=> Invoked("on_premature_exit")

\* a daemon whose body failed, flagged premature, with a stop that arrived
\* after the on-exit hook and before termination
C14_Witness ==
    /\ IsDaemonKind(kind)
    /\ pc = "done"
    /\ is_premature_exit
    /\ thr_exception = SAMPLE_EXCEPTION
    /\ Invoked("main")
    /\ hist.set_alive

\* C15: a well-behaved daemon (default loop) that is stopped while running
\* terminates cleanly: status() is Stopped, no error is captured, the handle
\* resolves successfully and it is not flagged premature, whether the stop is
\* seen at a checkpoint inside the iteration or by the loop condition.
C15_StoppedDaemonSafe ==
    (kind = "Daemon" /\ CalledWhileAlive /\ ~EnterRaised /\ pc = "done") =>
        /\ status = "stopped"
        /\ thr_exception = None
        /\ future.state = FINISHED
        /\ future.exception = None
        /\ CB.exception = Unset
        /\ ~is_premature_exit

C15_DaemonStopsCleanly ==
    /\ []C15_StoppedDaemonSafe
    /\ (kind = "Daemon" /\ is_alive /\ stopping_event) ~> (pc = "done")

\* the stop was seen by _sleep inside an iteration
C15_Witness ==
    /\ kind = "Daemon"
    /\ CalledWhileAlive
    /\ pc = "done"
    /\ Invoked("main")
    /\ hist.plain_stop
    /\ status = "stopped"

\* C16: for every daemon (also one whose body would return or fail at once),
\* stop() before start() followed by start() terminates the unit with status
\* Stopped, no captured error and a successfully resolved handle, and the unit
\* is not flagged as a premature exit.
C16_StoppedBeforeStartSafe ==
    (IsDaemonKind(kind) /\ hist.stop_at_start /\ pc = "done") =>
        /\ status = "stopped"
        /\ thr_exception = None
        /\ future.state = FINISHED
        /\ future.exception = None
        /\ CB.exception = Unset
        /\ ~is_premature_exit
        /\ ~Invoked("main")

C16_DaemonStopBeforeStart ==
    /\ []C16_StoppedBeforeStartSafe
    /\ (IsDaemonKind(kind) /\ hist.stop_at_start) ~> (pc = "done")

C16_Witness ==
    /\ kind = "DaemonCustom"
    /\ hist.stop_at_start
    /\ pc = "done"
    /\ Invoked("before_start_stop")
    /\ status = "stopped"

\* the body was entered and left neither by returning nor by an error, with no
\* stop ever requested: it kept sleeping until a _sleep ended it
SleptToTheEnd ==
    /\ pc = "done"
    /\ NeverRequested
    /\ Invoked("main")
    /\ ~BodyReturned
    /\ ~HookRaised

\* C17: a limited-time task whose body keeps sleeping past its deadline and
\* that gets no external stop/cancel terminates with status Stopped, expired
\* true, no captured error and a handle resolved successfully with a null
\* result.
C17_LimitedTimeSafe ==
    (kind = "LimitedTime" /\ SleptToTheEnd) =>
        /\ status = "stopped"
        /\ expired
        /\ thr_exception = None
        /\ thr_result = None
        /\ future = [state |-> FINISHED, result |-> None, exception |-> None]
        /\ CB = [result |-> None, exception |-> Unset]

C17_LimitedTimeExpiresCleanly ==
    /\ []C17_LimitedTimeSafe
    /\ (kind = "LimitedTime" /\ pc = "main" /\ expiry[1] <= MaxTime) ~> (pc = "done")

C17_Witness ==
    /\ kind = "LimitedTime"
    /\ SleptToTheEnd
    /\ expired
    /\ expiry[1] > 0
    /\ status = "stopped"

\* C18: a timeout task whose body keeps sleeping past its deadline and that
\* gets no external stop/cancel terminates with status Aborted (not
\* Cancelled), expired true, a timeout error as captured error and a handle
\* that raises that timeout error.
C18_TimeoutSafe ==
    (kind = "Timeout" /\ SleptToTheEnd) =>
        /\ status = "aborted"
        /\ expired
        /\ thr_exception = TimeoutError
        /\ thr_result = None
        /\ future = [state |-> FINISHED, result |-> None, exception |-> TimeoutError]
        /\ CB = [result |-> Unset, exception |-> TimeoutError]

C18_TimeoutExpiresWithError ==
    /\ []C18_TimeoutSafe
    /\ (kind = "Timeout" /\ pc = "main" /\ expiry[1] <= MaxTime) ~> (pc = "done")

C18_Witness ==
    /\ kind = "Timeout"
    /\ SleptToTheEnd
    /\ expired
    /\ expiry[1] > 0
    /\ status = "aborted"

\* the outcome _on_expiry defines: the error it raises, if any
ExpiryError == IF kind = "Timeout" THEN TimeoutError ELSE None

\* C19: an expiring task whose resolved deadline is already at or before the
\* current time when it starts terminates with the policy-defined expiry
\* outcome (expired true; clean null result for limited time, timeout error
\* for timeout) without its main body ever being executed.
C19_LateStartSafe ==
    hist.late_start =>
        /\ ~Invoked("main")
        /\ pc \in {"enter_check", "on_stop"} \/ PostBody
        /\ PostBody => (expired /\ exception = ExpiryError /\ result = None)
        /\ pc = "done" =>
              /\ thr_exception = ExpiryError
              /\ thr_result = None
              /\ future = [state |-> FINISHED, result |-> None, exception |-> ExpiryError]

C19_LateStartExpiresAtOnce ==
    /\ []C19_LateStartSafe
    /\ hist.late_start ~> (pc = "done")

C19_Witness ==
    /\ hist.late_start
    /\ kind = "Timeout"
    /\ expiry_raw = <<"seconds", 0>>
    /\ pc = "done"
    /\ thr_exception = TimeoutError

\* a step of a call made after the unit terminated: any step but the
\* completion of a cancel() that passed its guard while the unit was not yet
\* stopped
CallAfterEndStep ==
    \A c \in Callers :
        call'[c] # call[c] => (call[c].direct \/ call[c].pc \in {"idle", "guard"})

\* C20: calling cancel() or _request_stop on a task after it has terminated is
\* a no-op: status(), the stop flag, the recorded reason, result, error and the
\* handle are all unchanged by the call. Stated here for a task whose body
\* returned, so that it ended with status Stopped.
C20_CallAfterEndIsNoOp ==
    [][(IsTaskKind(kind) /\ is_stopped /\ status = "stopped" /\ CallAfterEndStep) =>
          /\ status' = status
          /\ stopping_event' = stopping_event
          /\ stop_reason' = stop_reason
          /\ thr_result' = thr_result
          /\ thr_exception' = thr_exception
          /\ future' = future]_vars

\* ------------------------------------------------------- claims C21..C30
\* C21: a function registered with add_callback is invoked once, with the
\* unit's result, when the handle resolves successfully, and never when it
\* resolves with an error
C21_CallbackOnSuccessOnly ==
    future.state = FINISHED =>
        fn_calls.callback =
            IF future.exception = None THEN <<future.result>> ELSE <<>>

\* C22: a function registered with add_errback is invoked once, with the
\* captured error, when the handle resolves with an error, and never when it
\* resolves successfully
C22_ErrbackOnErrorOnly ==
    future.state = FINISHED =>
        fn_calls.errback =
            IF future.exception # None THEN <<future.exception>> ELSE <<>>

\* the unit's state, as its queries show it
UnitState == <<stopping_event, stop_reason, status, thr_result, thr_exception,
               future, result, exception, pc>>

\* a step that is a controller's query, of the operation op
QueryStep(op) == obs' # obs /\ obs'.op = op

\* C23: reraise() raises the captured error exactly when there is one, but
\* TaskThread.reraise(suppress_cancelled=True) returns for a CancelledError and
\* raises every other error; with suppress_cancelled=False the cancellation
\* error is raised; no variant changes the unit's state
C23_ReraiseRaisesCapturedError ==
    [][(QueryStep("reraise") /\ obs'.pc = "idle") =>
          /\ UNCHANGED UnitState
          /\ obs'.out \in {None, thr_exception}
          /\ obs'.out = None <=>
                \/ thr_exception = None
                \/ /\ IsTaskKind(kind)
                   /\ obs'.arg = "suppress"
                   /\ thr_exception = CancelledError]_vars

C23_Witness ==
    /\ obs.op = "reraise" /\ obs.arg = "suppress" /\ obs.out = None
    /\ thr_exception = CancelledError

\* C24: join(timeout) returns true exactly when the unit has finished at the
\* moment the call returns, and false only after a timeout; once the unit has
\* terminated a join never waits and returns true; join changes nothing of the
\* stop flag, reason, status, result, error or handle
C24_JoinSafe ==
    /\ (obs.op = "join" /\ obs.out = "True") => pc = "done"
    /\ (obs.op = "join" /\ obs.out = "False") => obs.arg = "timeout"
    /\ (obs.op = "join" /\ obs.pc = "waiting" /\ pc = "done") => ENABLED JoinWait

C24_JoinReturnsFinished ==
    /\ []C24_JoinSafe
    /\ [][QueryStep("join") =>
             /\ UNCHANGED UnitState
             /\ obs'.out \in {"True", "False"} =>
                   obs'.out = IF is_alive THEN "False" ELSE "True"
             /\ (pc = "done" /\ obs.pc = "idle") => obs'.pc = "waiting"]_vars

C24_Witness ==
    /\ obs.op = "join" /\ obs.arg = "None" /\ obs.out = "True"
    /\ thr_result = SAMPLE_RESULT

\* the body is inside a sleep() call
InSleep == pc \in {"clamp", "sleeping"}

\* C25: with the run wrapper and a well-behaved body scheduled fairly, a unit
\* whose stop was requested while it is alive eventually terminates; a
\* sleep() entered or waiting with the stop flag set never returns to the
\* body, it ends by raising
C25_SleepNeverReturnsOnceStopped ==
    [][(InSleep /\ stopping_event /\ pc' # pc) =>
          /\ pc' \in {"sleeping", "on_stop"}
          /\ pc' = "on_stop" => signal' \in {"stop", "expired"}]_vars

C25_StoppedUnitTerminates ==
    /\ C25_SleepNeverReturnsOnceStopped
    /\ (is_alive /\ stopping_event) ~> (pc = "done")

\* a stop seen by sleep() inside the body, and the unit has terminated
C25_Witness ==
    /\ Invoked("main")
    /\ hist.plain_stop
    /\ stopping_event
    /\ pc = "done"

\* every cancel() call so far was made after start()
CalledAfterStart == ~hist.stop_at_start /\ ~hist.call_at_start

\* C26: FunctionThread.cancel() called while the unit runs raises a usage
\* error at once and leaves the stop flag, reason, status and the unit's
\* eventual result as they were; cancel() before start() is accepted, and the
\* unit then terminates Cancelled without invoking the callable
C26_FunctionCancelSafe ==
    kind = "Function" =>
        /\ (CalledAfterStart /\ is_alive) =>
              /\ ~stopping_event
              /\ stop_reason = None
              /\ status = "running"
        /\ (CalledAfterStart /\ pc = "ret") =>
              /\ thr_exception # CancelledError
              /\ Invoked("main") =>
                    \/ thr_exception = None /\ thr_result \in Values
                    \/ thr_exception = SAMPLE_EXCEPTION /\ thr_result = None
        /\ (hist.stop_at_start /\ pc = "done") =>
              /\ status = "cancelled"
              /\ thr_exception = CancelledError
              /\ future.exception = CancelledError
              /\ ~Invoked("main")

C26_FunctionCancel ==
    /\ []C26_FunctionCancelSafe
    /\ [][(kind = "Function" /\ is_alive) =>
             /\ \A c \in Callers : call[c].pc = "idle" => call'[c] = call[c]
             /\ (hist'.usage_error /\ ~hist.usage_error) =>
                   UNCHANGED <<UnitState, call>>]_vars
    /\ (kind = "Function" /\ hist.stop_at_start /\ is_alive) ~> (pc = "done")

\* cancel() raised while the callable ran, and the callable's value is the result
C26_Witness ==
    /\ kind = "Function"
    /\ hist.usage_error
    /\ CalledAfterStart
    /\ pc = "done"
    /\ thr_result = SAMPLE_RESULT

\* the calls made so far of one of the event loop's methods
CallsOf(method) == {c \in event.calls : c[1] = method}

InIteration == pc \in {"iter", "got", "handle", "event_error"}

\* C27: in an event loop an error of handle-event goes to on-event-error with
\* the event and the error and not to on-error; an error of fetch-next-event
\* or of on-event-error itself goes to on-error; a stop signal goes to neither;
\* handle-event is called for non-null events only; the loop goes on until a
\* stop is requested
C27_EventLoopSafe ==
    /\ \A c \in CallsOf("handle_event") : c[2] \in Events
    /\ \A c \in CallsOf("on_event_error") : c[2] \in Events /\ c[3] = "HandleError"
    /\ \A c \in CallsOf("on_error") : c[2] \in {"ReadError", "PolicyError"}
    /\ (PostBody /\ ~EnterRaised) => stopping_event /\ exception = None

C27_EventLoopRouting ==
    /\ []C27_EventLoopSafe
    /\ [][InIteration =>
             /\ pc' \in {"iter", "got", "handle", "event_error", "main", "on_stop"}
             /\ pc' = "on_stop" =>
                   stopping_event /\ signal' = "stop" /\ event'.calls = event.calls
             /\ (pc = "handle" /\ pc' = "event_error") =>
                   /\ <<"on_event_error", event.cur, "HandleError">> \in event'.calls
                   /\ CallsOf("on_error")' = CallsOf("on_error")
             /\ (pc = "handle" /\ pc' # pc) => event.cur \in Events]_vars

\* an event's handler raised, so did the policy, and the loop ended by a stop
C27_Witness ==
    /\ <<"on_event_error", "ev1", "HandleError">> \in event.calls
    /\ <<"on_error", "PolicyError">> \in event.calls
    /\ <<"on_error", "ReadError">> \in event.calls
    /\ pc = "done"
    /\ status = "stopped"

\* C28: cancel() on the handle always raises and leaves the handle as it was;
\* the handle is cancelled in no reachable state; only the owning unit's run()
\* changes it, when it marks it running and when it resolves it
C28_HandleNeverCancelled ==
    /\ [](future.state # CANCELLED /\ ~future_cancelled)
    /\ [][/\ QueryStep("future.cancel") =>
                obs'.out = "NotImplementedError" /\ future' = future
          /\ future' # future =>
                \/ pc = "boot" /\ pc' = "check"
                \/ pc = "resolve" /\ pc' = "exit"]_vars

\* future.cancel() was called on a started unit, which went on to resolve it
C28_Witness ==
    /\ obs.op = "future.cancel"
    /\ obs.out = "NotImplementedError"
    /\ future.state = FINISHED

\* the changes of status() the life cycle allows
StatusEdges ==
    {<<"not_started", "stopped_before_starting">>, <<"not_started", "running">>,
     <<"stopped_before_starting", "stopping">>, <<"running", "stopping">>}
    \cup ({"running", "stopping"} \X {"stopped", "aborted", "cancelled"})

\* C29: status() changes only along NotStarted -> StoppedBeforeStarting,
\* NotStarted -> Running, StoppedBeforeStarting -> Stopping, Running ->
\* Stopping and Running / Stopping -> a terminal status; it never goes back,
\* and it is terminal only once the unit has finished. Stated here for stop
\* requests made through cancel() / stop().
C29_StatusEdges ==
    /\ [](status \in {"stopped", "aborted", "cancelled"} => pc = "done")
    /\ [][(\A c \in Callers : ~call[c].direct) =>
             (status' = status \/ <<status, status'>> \in StatusEdges)]_vars

\* the same, for the units that are no tasks
C29_StatusEdgesOfNonTasks ==
    [][~IsTaskKind(kind) =>
          (status' = status \/ <<status, status'>> \in StatusEdges)]_vars

\* __exit__ is over, and an interrupt came out of the block or of a join
CtxInterrupted ==
    /\ ctx.pc \in {"returned", "raised"}
    /\ ctx.exc_value = Interrupt \/ ctx.interrupt = Interrupt \/ ctx.out = Interrupt

CtxAsked(i) == \E k \in 1..Len(ctx.asked) : ctx.asked[k] = i

\* C30: after a KeyboardInterrupt in the block or while joining, every thread
\* of the context that is still alive has been asked to stop / cancel, whatever
\* `stop` was configured, and the requests were made in the reverse order of
\* the thread list
C30_InterruptStopsEveryone ==
    CtxInterrupted =>
        /\ \A i \in 1..CtxThreads : CtxAlive(i) => CtxAsked(i)
        /\ \A k \in 1..Len(ctx.asked) - 1 : ctx.asked[k] > ctx.asked[k + 1]

\* the same, for a context that manages no FunctionThread
C30_InterruptStopsEveryoneButFunctions ==
    (\A i \in 1..CtxThreads : ctx.classes[i] # "FunctionThread") =>
        C30_InterruptStopsEveryone

\* ------------------------------------------------------- claims C31..C40
\* C31: when an expiring task expires, the value its on-expiry hook returns
\* is the task's result: after termination thread.result is that value and
\* the handle has resolved with it
C31_OnExpiryValueIsResult ==
    (IsExpiringKind(kind) /\ expired /\ thr_exception = None /\ pc = "done") =>
        /\ thr_result = on_expiry(kind)
        /\ future.result = on_expiry(kind)

\* a sleep whose timeout was cut to the deadline is over
ClampedSleepWakes == pc = "sleeping" /\ sleep.clamp /\ pc' # pc

\* C32 (as stated): a sleep of an expiring task whose timeout was cut to the
\* deadline raises the expired signal when it wakes, whether or not the wait
\* reported a stop, so that a stop / cancel during it ends in the expiry
\* outcome and not in cancellation
C32_ClampedSleepAlwaysExpires ==
    [][ClampedSleepWakes => (pc' = "on_stop" /\ signal' = "expired")]_vars

\* C32 (amended): a sleep whose timeout was cut raises the expired signal
\* when it wakes only if the wait ended without a stop; if the stop flag is
\* set when it wakes it raises the plain stop signal, and the task then ends
\* cancelled: expired stays false and the error is CancelledError
C32_StoppedClampedSleepSafe ==
    (IsExpiringKind(kind) /\ hist.clamp_stop) =>
        /\ stopping_event
        /\ pc = "on_stop" => signal = "stop"
        /\ PostBody => (~expired /\ exception = CancelledError)
        /\ pc = "done" =>
              /\ thr_exception = CancelledError
              /\ future.exception = CancelledError
              /\ status = "cancelled"

C32_ClampedSleepStopWins ==
    /\ []C32_StoppedClampedSleepSafe
    /\ [][ClampedSleepWakes =>
             /\ pc' = "on_stop"
             /\ signal' = IF stopping_event THEN "stop" ELSE "expired"
             /\ hist'.clamp_stop = (hist.clamp_stop \/ stopping_event)]_vars

C32_Witness ==
    /\ IsExpiringKind(kind)
    /\ hist.clamp_stop
    /\ pc = "done"

\* the unit is where the expiry is compared with the clock
InExpiryCheck == pc \in {"enter_check", "clamp", "sleeping"}

\* C33: for an expiring task constructed with a duration (or a number of
\* seconds) d, the deadline of every expiry check is the time at which the
\* unit entered its run plus d, however long it waited between construction
\* and start; it is resolved once, at start, and never changes afterwards
C33_DeadlineSafe ==
    IsExpiringKind(kind) =>
        /\ InExpiryCheck => expiry # <<>>
        /\ (expiry # <<>>) => Invoked("on_enter")
        /\ (expiry = <<>> /\ is_started) => ~Invoked("main")

Precedes(a, b) ==
    \A i, j \in DOMAIN hooks : (hooks[i] = a /\ hooks[j] = b) => i < j

\* what _on_exit itself does after it was entered
PartOfExit == {"on_exit", "on_premature_exit", "done"}

\* C34: in every run of the wrapper on-enter, if invoked, precedes the main
\* body; the on-stop hook is invoked exactly when a stop signal escaped the
\* body, on-enter or the before-start-stop hook; on-abort is invoked exactly
\* when an error was captured, and before the handle is resolved; the handle
\* is resolved before on-exit; on-exit is invoked exactly once, as the last
\* step, however the unit ends
C34_HooksSafe ==
    /\ Precedes("on_enter", "main")
    /\ \A h \in {"on_enter", "before_start_stop", "main", "on_stop", "on_abort"} :
          Precedes(h, "on_exit") /\ Times(h) <= 1
    /\ Precedes("on_stop", "on_abort")
    /\ Invoked("on_stop") => pc \in {"finally"} \cup Epilogue
    /\ (pc = "on_stop") = (signal # None)
    /\ pc \in Epilogue => (Invoked("on_abort") <=> thr_exception # None)
    /\ pc \notin Epilogue => (~Invoked("on_abort") /\ ~future_done)
    /\ pc = "resolve" => ~future_done
    /\ Invoked("on_exit") => (future_done /\ pc \in {"ret", "done"})
    /\ pc \in {"ret", "done"} => Times("on_exit") = 1
    /\ Times("on_exit") <= 1

C34_HookOrder ==
    /\ []C34_HooksSafe
    /\ [][/\ (pc = "on_stop" /\ pc' # pc) =>
                (pc' = "finally" /\ hooks' = Append(hooks, "on_stop"))
          /\ Times("on_stop")' # Times("on_stop") => pc = "on_stop"
          /\ Invoked("on_exit") => hooks' = hooks]_vars

\* a cancelled task: enter, body, stop hook, abort hook, resolution, exit
C34_Witness ==
    /\ pc = "done"
    /\ hooks = <<"on_enter", "main", "on_stop", "on_abort", "on_exit", "done">>
    /\ future.exception = CancelledError

\* C35: status() of a task reports Cancelled and not Aborted for a cancelled
\* task under every interleaving: a status() call that overlaps the task's
\* termination never returns Aborted for a task whose captured error is the
\* cancellation error of the stop hook
C35_CancelledNeverReportedAborted ==
    (IsTaskKind(kind) /\ obs.op = "status" /\ obs.out = "aborted") =>
        thr_exception # CancelledError

\* C36: a terminal status is stable: once status() is Stopped, Aborted or
\* Cancelled it is that same value in every later state, whatever stop /
\* cancel calls come later or overlap the termination, a cancel() that began
\* before the unit terminated and completes after it included
C36_TerminalStatusStable ==
    [][((\A c \in Callers : ~call[c].direct)
            /\ status \in {"stopped", "aborted", "cancelled"}) =>
          status' = status]_vars

\* C38: the assertion inside Thread.status() never fails: whenever a status()
\* call reaches its last branch (started, not alive, not aborted), under any
\* interleaving with start, stop requests and the unit's termination,
\* is_stopped() is true; and the predicates agree: is_stopping and is_stopped
\* are never both true, and is_aborted implies is_stopped
C38_StatusAssertionHolds ==
    /\ obs.out # "AssertionError"
    /\ (obs.op = "status" /\ obs.pc \in {"is_aborted", "assert"}) => is_stopped
    /\ ~(is_stopping /\ is_stopped)
    /\ is_aborted => is_stopped

\* a status() call that began while the unit ran reached the last branch
\* after it had terminated
C38_Witness ==
    /\ obs.op = "status"
    /\ obs.pc = "assert"
    /\ obs.arg = "False"
    /\ stopping_event
    /\ pc = "done"

C39_BaseOnExitOnce ==
    /\ pc \in {"ret", "done"} => Times("done") = 1
    /\ Times("done") <= 1

\* __exit__ is over, for a context configured with stop=True, join=True and
\* no join timeout over threads that are no FunctionThreads, and no interrupt
\* arrived while it joined
CtxStopJoinExited ==
    /\ ctx.pc \in {"returned", "raised"}
    /\ ctx.should_stop /\ ctx.should_join /\ ctx.join_timeout = None
    /\ \A i \in 1..CtxThreads : ctx.classes[i] # "FunctionThread"
    /\ ctx.interrupt = None /\ ctx.out # Interrupt

CtxJoined(i) == \E k \in 1..Len(ctx.joined) : ctx.joined[k] = i

\* C40 (as stated): with stop=True, join=True and no join timeout over
\* well-behaved threads, when __exit__ returns or raises every managed thread
\* has been joined and has terminated, also when one of them aborted with an
\* error that __exit__ re-raises
C40_ExitJoinsEveryone ==
    CtxStopJoinExited =>
        \A i \in 1..CtxThreads : CtxJoined(i) /\ ~CtxAlive(i)

\* C40 (amended): when __exit__ returns or raises, every thread still alive
\* has been asked to stop; the threads were joined in reverse order of the
\* list, each joined thread has terminated, and all of them were joined
\* unless a joined thread had aborted with an error that is re-raised: the
\* joining ends at that thread, and the threads before it in the list are not
\* joined and may still be alive
C40_ExitJoinsUntilFirstError ==
    CtxStopJoinExited =>
        /\ \A i \in 1..CtxThreads : CtxAlive(i) => (CtxAsked(i) /\ ~CtxJoined(i))
        /\ \A k \in 1..Len(ctx.joined) : ctx.joined[k] = CtxThreads + 1 - k
        /\ ctx.new_exception = None => Len(ctx.joined) = CtxThreads
        /\ ctx.new_exception # None =>
              /\ ctx.new_exception = SAMPLE_EXCEPTION
              /\ ctx.should_reraise
              /\ ctx.joined # <<>>
              /\ ctx.threads[ctx.joined[Len(ctx.joined)]] = "aborted"

\* the last thread of the list aborted, its error ends the joining, and the
\* first thread, asked to stop, is still alive when __exit__ raises
C40_Witness ==
    /\ CtxStopJoinExited
    /\ ctx.pc = "raised"
    /\ ctx.out = SAMPLE_EXCEPTION
    /\ ctx.joined = <<CtxThreads>>
    /\ CtxAlive(1)

====
